---- MODULE Spec2Model ----
(***************************************************************************)
(* disc-append: the media-info report parser of disc_append.py.            *)
(*                                                                         *)
(*   build_media_info_tree  (disc_append.py 269-292)                       *)
(*   parse_media_info       (disc_append.py 237-263)                       *)
(*                                                                         *)
(* A Python str is modelled as a sequence of atoms.  An atom is one        *)
(* character (" ", a tab, ":", "*", a newline, a digit, a sign, a letter)  *)
(* or, for section and field names, a run of characters that holds no      *)
(* colon, star or newline and neither starts nor ends with whitespace      *)
(* ("READ CAPACITY"), so that str.split and str.strip act on atoms the     *)
(* way they act on characters.                                             *)
(***************************************************************************)
EXTENDS Integers, Sequences, FiniteSets, TLC

VARIABLES info, pc, line_no, media_info_tree, current_child,
          total_size, is_blank, free_size, child_no, result, err,
          sections, swapped, prev_result

vars == <<info, pc, line_no, media_info_tree, current_child,
          total_size, is_blank, free_size, child_no, result, err,
          sections, swapped, prev_result>>

(***************************************************************************)
(* Bounds of the model.                                                    *)
(***************************************************************************)
MaxSections == 4
MaxLines == 4
MaxSwapSections == 4

(***************************************************************************)
(* Python str primitives.                                                  *)
(***************************************************************************)
NL == "\n"
TAB == "\t"

\* str.strip() with no argument removes whitespace; a line never holds a
\* newline (it comes out of split('\n')), so space and tab are the
\* whitespace atoms of the model.
IsSpace(c) == c \in {" ", TAB}

RECURSIVE lstrip(_)
lstrip(s) == IF s # <<>> /\ IsSpace(Head(s)) THEN lstrip(Tail(s)) ELSE s

RECURSIVE rstrip(_)
rstrip(s) ==
    IF s # <<>> /\ IsSpace(s[Len(s)]) THEN rstrip(SubSeq(s, 1, Len(s) - 1)) ELSE s

strip(s) == rstrip(lstrip(s))

\* s.split(sep): every occurrence of sep cuts; n separators give n+1 parts.
RECURSIVE SplitFrom(_, _, _, _, _)
SplitFrom(s, sep, i, part, done) ==
    IF i > Len(s) THEN Append(done, part)
    ELSE IF s[i] = sep THEN SplitFrom(s, sep, i + 1, <<>>, Append(done, part))
    ELSE SplitFrom(s, sep, i + 1, Append(part, s[i]), done)

split(s, sep) == SplitFrom(s, sep, 1, <<>>, <<>>)

Digits == <<"0", "1", "2", "3", "4", "5", "6", "7", "8", "9">>
IsDigit(c) == \E n \in 1..10 : Digits[n] = c
DigitVal(c) == (CHOOSE n \in 1..10 : Digits[n] = c) - 1

RECURSIVE Decimal(_)
Decimal(s) == IF s = <<>> THEN 0
              ELSE 10 * Decimal(SubSeq(s, 1, Len(s) - 1)) + DigitVal(s[Len(s)])

\* int(s): surrounding whitespace is allowed, then an optional sign, then one
\* or more digits; anything else raises ValueError.
int(s) ==
    LET t == strip(s)
        signed == t # <<>> /\ t[1] \in {"+", "-"}
        body == IF signed THEN Tail(t) ELSE t
        ok == body # <<>> /\ \A i \in 1..Len(body) : IsDigit(body[i])
    IN  [ok |-> ok,
         v |-> IF ~ok THEN 0
               ELSE IF signed /\ t[1] = "-" THEN 0 - Decimal(body)
               ELSE Decimal(body)]

(***************************************************************************)
(* Python dict, insertion ordered: a sequence of entries.  Assigning to a  *)
(* key the dict holds replaces the value where the key stands; a new key   *)
(* is appended.                                                            *)
(***************************************************************************)
NoError == "None"

\* An exception leaves the call: its class, and the statement that raised it.
Traceback(kind, at) == [kind |-> kind, at |-> at]
NoTraceback == Traceback(NoError, "")

HasKey(d, k) == \E i \in 1..Len(d) : d[i].key = k
IndexOf(d, k) == CHOOSE i \in 1..Len(d) : d[i].key = k
Lookup(d, k) == d[IndexOf(d, k)]

DictSet(d, e) ==
    IF HasKey(d, e.key) THEN [d EXCEPT ![IndexOf(d, e.key)] = e] ELSE Append(d, e)

\* A value of MediaInfoTree: a str (isdict = FALSE, str) or a dict of str
\* to str (isdict = TRUE, items).
Scalar(k, v) == [key |-> k, isdict |-> FALSE, str |-> v, items |-> <<>>]
Group(k, items) == [key |-> k, isdict |-> TRUE, str |-> <<>>, items |-> items]
Field(k, v) == [key |-> k, val |-> v]

\* current_child: Optional[dict[str, str]].  The dict it refers to is always
\* the one the latest top-level line stored under its key, so the key stands
\* for the reference.
NoChild == [open |-> FALSE, key |-> <<>>]
ChildOf(k) == [open |-> TRUE, key |-> k]

(***************************************************************************)
(* build_media_info_tree: the body of the loop over info.split('\n').      *)
(***************************************************************************)
BuildState(tree, child, e) == [tree |-> tree, current_child |-> child, err |-> e]

\* "if not line.strip() or line[0] == ':': pass"
IsSkipped(line) == IF strip(line) = <<>> THEN TRUE ELSE line[1] = ":"

\* "elif line[0] == ' ':" -- a space, and only a space
IsIndented(line) == ~IsSkipped(line) /\ line[1] = " "

\* child_child_key, child_child_value = line.split(':')
\* current_child[child_child_key.strip()] = child_child_value.strip()
IndentedStep(tree, child, line) ==
    LET parts == split(line, ":") IN
    IF Len(parts) # 2 THEN BuildState(tree, child, "ValueError")
    ELSE IF ~child.open THEN BuildState(tree, child, "TypeError")
    ELSE LET i == IndexOf(tree, child.key)
             f == Field(strip(parts[1]), strip(parts[2]))
         IN  BuildState([tree EXCEPT ![i].items = DictSet(tree[i].items, f)],
                        child, NoError)

\* child_key, child_value_str = line.split(':') ... media_info_tree[child_key] = child_value
TopLevelStep(tree, child, line) ==
    LET parts == split(line, ":") IN
    IF Len(parts) # 2 THEN BuildState(tree, child, "ValueError")
    ELSE LET child_key == strip(parts[1])
             child_value == strip(parts[2])
         IN  IF child_value # <<>>
             THEN BuildState(DictSet(tree, Scalar(child_key, child_value)),
                             NoChild, NoError)
             ELSE BuildState(DictSet(tree, Group(child_key, <<>>)),
                             ChildOf(child_key), NoError)

LineStep(tree, child, line) ==
    IF IsSkipped(line) THEN BuildState(tree, child, NoError)
    ELSE IF IsIndented(line) THEN IndentedStep(tree, child, line)
    ELSE TopLevelStep(tree, child, line)

RECURSIVE BuildFrom(_, _, _)
BuildFrom(st, lines, n) ==
    IF n > Len(lines) \/ st.err # NoError THEN st
    ELSE BuildFrom(LineStep(st.tree, st.current_child, lines[n]), lines, n + 1)

\* The whole call: the tree, or the exception that ended it.
build_media_info_tree(text) ==
    BuildFrom(BuildState(<<>>, NoChild, NoError), split(text, NL), 1)

(***************************************************************************)
(* parse_media_info.                                                       *)
(***************************************************************************)
SECTOR_SIZE == 2048

READ_FORMAT_CAPACITIES == <<"READ FORMAT CAPACITIES">>
FORMATTED_00H == <<"00h(3000)">>
READ_CAPACITY == <<"READ CAPACITY">>
READ_DISC_INFORMATION == <<"READ DISC INFORMATION">>
DISC_STATUS == <<"Disc status">>
BLANK == <<"blank">>
FREE_BLOCKS == <<"Free Blocks">>

Value(e, v) == [err |-> e, v |-> v]

\* "x_str, *_ = value.split('*'); x = int(x_str) * 2048"
SectorsToBytes(value) ==
    LET n == int(split(value, "*")[1])
    IN  IF n.ok THEN Value(NoError, n.v * SECTOR_SIZE) ELSE Value("ValueError", 0)

\* The "except KeyError:" branch: media_info_tree['READ CAPACITY'].split('*')
TotalFromReadCapacity(tree) ==
    IF ~HasKey(tree, READ_CAPACITY) THEN Value("KeyError", 0)
    ELSE IF Lookup(tree, READ_CAPACITY).isdict THEN Value("AttributeError", 0)
    ELSE SectorsToBytes(Lookup(tree, READ_CAPACITY).str)

\* The try block: media_info_tree['READ FORMAT CAPACITIES']['00h(3000)'];
\* only KeyError falls through to READ CAPACITY.
TotalSize(tree) ==
    IF ~HasKey(tree, READ_FORMAT_CAPACITIES) THEN TotalFromReadCapacity(tree)
    ELSE LET sec == Lookup(tree, READ_FORMAT_CAPACITIES) IN
         IF ~sec.isdict THEN Value("TypeError", 0)
         ELSE IF ~HasKey(sec.items, FORMATTED_00H) THEN TotalFromReadCapacity(tree)
         ELSE SectorsToBytes(Lookup(sec.items, FORMATTED_00H).val)

\* IsBlank with dict.get() lookups: a missing section or field reads as "not
\* blank" instead of raising KeyError.
IsBlankLenient(tree) ==
    IF ~HasKey(tree, READ_DISC_INFORMATION) THEN Value(NoError, FALSE)
    ELSE LET sec == Lookup(tree, READ_DISC_INFORMATION) IN
         IF ~sec.isdict THEN Value("TypeError", FALSE)
         ELSE IF ~HasKey(sec.items, DISC_STATUS) THEN Value(NoError, FALSE)
         ELSE Value(NoError, Lookup(sec.items, DISC_STATUS).val = BLANK)

\* is_blank = media_info_tree['READ DISC INFORMATION']['Disc status'] == 'blank'
IsBlank(tree) ==
    IF ~HasKey(tree, READ_DISC_INFORMATION) THEN Value("KeyError", FALSE)
    ELSE LET sec == Lookup(tree, READ_DISC_INFORMATION) IN
         IF ~sec.isdict THEN Value("TypeError", FALSE)
         ELSE IF ~HasKey(sec.items, DISC_STATUS) THEN Value("KeyError", FALSE)
         ELSE Value(NoError, Lookup(sec.items, DISC_STATUS).val = BLANK)

\* The local free_size: unbound until an assignment reaches it.
Unbound == [bound |-> FALSE, v |-> 0]
Bound(v) == [bound |-> TRUE, v |-> v]

\* FreeOfBlank with the used size of a blank disc (0) taken for its free size.
FreeOfBlankUsed(total) == Bound(0)

\* "if is_blank: free_size = total_size"
FreeOfBlank(total) == Bound(total)

\* ScanChild with "except KeyError: free_size = 0": a dict without
\* 'Free Blocks' resets what an earlier one gave.
ScanChildReset(free, child) ==
    IF ~child.isdict THEN Value(NoError, free)
    ELSE IF ~HasKey(child.items, FREE_BLOCKS) THEN Value(NoError, Bound(0))
    ELSE LET b == SectorsToBytes(Lookup(child.items, FREE_BLOCKS).val)
         IN  IF b.err # NoError THEN Value(b.err, free) ELSE Value(NoError, Bound(b.v))

\* One pass of "for _, child in media_info_tree.items()": KeyError (a dict
\* without 'Free Blocks') and TypeError (a str child) are passed over, the
\* ValueError of int() is not.
ScanChild(free, child) ==
    IF ~child.isdict THEN Value(NoError, free)
    ELSE IF ~HasKey(child.items, FREE_BLOCKS) THEN Value(NoError, free)
    ELSE LET b == SectorsToBytes(Lookup(child.items, FREE_BLOCKS).val)
         IN  IF b.err # NoError THEN Value(b.err, free) ELSE Value(NoError, Bound(b.v))

RECURSIVE ScanFrom(_, _, _)
ScanFrom(st, tree, n) ==
    IF n > Len(tree) \/ st.err # NoError THEN st
    ELSE ScanFrom(ScanChild(st.v, tree[n]), tree, n + 1)

\* The dataclass MediaInfo, and the record of a call that has not returned.
MediaInfo(total, free, used, blank) ==
    [returned |-> TRUE, total_size |-> total, free_size |-> free,
     used_size |-> used, is_blank |-> blank]
NoResult ==
    [returned |-> FALSE, total_size |-> 0, free_size |-> 0,
     used_size |-> 0, is_blank |-> FALSE]

\* Finish with free_size initialised to 0 before the loop: no
\* UnboundLocalError, a record with nothing free.
FinishDefaultFree(total, free, blank) ==
    IF ~free.bound THEN Value(NoError, MediaInfo(total, 0, total, blank))
    ELSE Value(NoError, MediaInfo(total, free.v, total - free.v, blank))

\* "used_size = total_size - free_size; return MediaInfo(...)": reading the
\* unbound local raises UnboundLocalError.
Finish(total, free, blank) ==
    IF ~free.bound THEN Value("UnboundLocalError", NoResult)
    ELSE Value(NoError, MediaInfo(total, free.v, total - free.v, blank))

\* The whole call, as one function of the report text.
parse_media_info(text) ==
    LET built == build_media_info_tree(text)
        tree == built.tree
        total == TotalSize(tree)
        blank == IsBlank(tree)
        free == IF blank.v THEN Value(NoError, FreeOfBlank(total.v))
                ELSE ScanFrom(Value(NoError, Unbound), tree, 1)
    IN  IF built.err # NoError THEN Value(built.err, NoResult)
        ELSE IF total.err # NoError THEN Value(total.err, NoResult)
        ELSE IF blank.err # NoError THEN Value(blank.err, NoResult)
        ELSE IF free.err # NoError THEN Value(free.err, NoResult)
        ELSE Finish(total.v, free.v, blank.v)

(***************************************************************************)
(* Reports: the text of dvd+rw-mediainfo, from the shapes of BLANK_BD and  *)
(* WRITTEN_BD in test_disc_append.py.                                      *)
(***************************************************************************)
ScalarLine(k, v) == <<k, ":", " ", " ">> \o v
HeaderLine(k) == <<k, ":">>
FieldLine(k, v) == <<" ", k, ":", " ", " ">> \o v

\* "<sectors>*2048" and "<sectors>*2KB"
InBytes(d) == <<d, "*", "2", "0", "4", "8">>
InKB(d) == <<d, "*", "2", "K", "B">>

TRACK_1 == <<"READ TRACK INFORMATION[#1]">>
TRACK_2 == <<"READ TRACK INFORMATION[#2]">>
TRACK_3 == <<"READ TRACK INFORMATION[#3]">>
TrackNames == {TRACK_1, TRACK_2, TRACK_3}

\* A section: a top-level line and the indented lines under it, each ended
\* by a newline.
Section1(top) == top \o <<NL>>
Section2(top, field) == top \o <<NL>> \o field \o <<NL>>

ReadCapacity == Section1(ScalarLine(READ_CAPACITY[1], InBytes("3")))
ReadCapacityGroup == Section1(HeaderLine(READ_CAPACITY[1]))
FormatCapacities ==
    Section2(HeaderLine(READ_FORMAT_CAPACITIES[1]), FieldLine(FORMATTED_00H[1], InBytes("2")))
FormatCapacitiesUnformatted ==
    Section2(HeaderLine(READ_FORMAT_CAPACITIES[1]), FieldLine("unformatted", InBytes("4")))
FormatCapacitiesScalar ==
    Section1(ScalarLine(READ_FORMAT_CAPACITIES[1], InBytes("2")))
DiscBlank ==
    Section2(HeaderLine(READ_DISC_INFORMATION[1]), FieldLine(DISC_STATUS[1], BLANK))
DiscAppendable ==
    Section2(HeaderLine(READ_DISC_INFORMATION[1]), FieldLine(DISC_STATUS[1], <<"appendable">>))
DiscNoStatus ==
    Section2(HeaderLine(READ_DISC_INFORMATION[1]), FieldLine("Number of Sessions", <<"1">>))
DiscScalar == Section1(ScalarLine(READ_DISC_INFORMATION[1], BLANK))
Track1 == Section2(HeaderLine(TRACK_1[1]), FieldLine(FREE_BLOCKS[1], InKB("1")))
Track2 == Section2(HeaderLine(TRACK_2[1]), FieldLine(FREE_BLOCKS[1], InKB("5")))
Track3Unreadable ==
    Section2(HeaderLine(TRACK_3[1]), FieldLine(FREE_BLOCKS[1], <<"n", "/", "a">>))
Track1NoFree == Section2(HeaderLine(TRACK_1[1]), FieldLine("Track Size", InKB("4")))
PowResources ==
    Section2(HeaderLine("POW RESOURCES INFORMATION"), FieldLine(FREE_BLOCKS[1], InKB("2")))

ReportSections ==
    {ReadCapacity, ReadCapacityGroup, FormatCapacities, FormatCapacitiesUnformatted,
     FormatCapacitiesScalar, DiscBlank, DiscAppendable, DiscNoStatus, DiscScalar,
     Track1, Track2, Track3Unreadable}

SwapSections ==
    {ReadCapacity, DiscBlank, DiscAppendable, Track1, Track2, Track1NoFree,
     PowResources}

\* Lines for build_media_info_tree alone: headers, scalars, indented fields,
\* blank and colon-led noise, lines with no colon or with two, a tab indent.
TreeLines ==
    {HeaderLine("G"), HeaderLine("H"), ScalarLine("A", <<"x">>),
     FieldLine("k", <<"v">>), FieldLine("k", <<"w">>),
     <<" ">>, <<":", "-", "[", " ", "x", "]", ":", " ", "y">>,
     <<"x">>, <<"A", ":", " ", "1", "2", ":", "3", "0">>,
     <<" ", "k", ":", " ", "1", "4", ":", "0">>,
     <<TAB, "k", ":", " ", "v">>}

SeqsUpTo(S, n) == UNION {[1..m -> S] : m \in 0..n}

\* Reports of up to n sections, no section written twice (two sections of
\* one report may still carry the same name).
Reports(S, n) ==
    {ss \in SeqsUpTo(S, n) : \A i, j \in 1..Len(ss) : ss[i] = ss[j] => i = j}

RECURSIVE Concat(_)
Concat(ss) == IF ss = <<>> THEN <<>> ELSE Head(ss) \o Concat(Tail(ss))

\* '\n'.join(lines)
RECURSIVE JoinLines(_)
JoinLines(ls) ==
    IF ls = <<>> THEN <<>>
    ELSE IF Len(ls) = 1 THEN ls[1]
    ELSE ls[1] \o <<NL>> \o JoinLines(Tail(ls))

(***************************************************************************)
(* Spec: one call of parse_media_info on a report.                         *)
(***************************************************************************)
Init ==
    /\ \E ss \in Reports(ReportSections, MaxSections) : info = Concat(ss)
    /\ sections = <<>>
    /\ pc = "start"
    /\ line_no = 0
    /\ media_info_tree = <<>>
    /\ current_child = NoChild
    /\ total_size = 0
    /\ is_blank = FALSE
    /\ free_size = Unbound
    /\ child_no = 0
    /\ result = NoResult
    /\ err = NoTraceback
    /\ swapped = <<>>
    /\ prev_result = NoResult

Raise(e) == pc' = "raised" /\ err' = Traceback(e, pc)

\* media_info_tree = build_media_info_tree(info)
CallBuildTree ==
    /\ pc = "start"
    /\ LET built == build_media_info_tree(info) IN
       IF built.err # NoError
       THEN Raise(built.err) /\ UNCHANGED media_info_tree
       ELSE pc' = "total" /\ media_info_tree' = built.tree /\ UNCHANGED err
    /\ UNCHANGED <<info, line_no, current_child, total_size, is_blank, free_size,
                   child_no, result, sections, swapped, prev_result>>

\* the try/except KeyError that sets total_size
ResolveTotal ==
    /\ pc = "total"
    /\ LET t == TotalSize(media_info_tree) IN
       IF t.err # NoError
       THEN Raise(t.err) /\ UNCHANGED total_size
       ELSE pc' = "status" /\ total_size' = t.v /\ UNCHANGED err
    /\ UNCHANGED <<info, line_no, media_info_tree, current_child, is_blank, free_size,
                   child_no, result, sections, swapped, prev_result>>

\* is_blank = ... == 'blank', and "if is_blank: free_size = total_size"
ResolveBlank ==
    /\ pc = "status"
    /\ LET b == IsBlank(media_info_tree) IN
       IF b.err # NoError
       THEN Raise(b.err) /\ UNCHANGED <<is_blank, free_size, child_no>>
       ELSE /\ is_blank' = b.v
            /\ UNCHANGED err
            /\ IF b.v
               THEN pc' = "return" /\ free_size' = FreeOfBlank(total_size)
                    /\ UNCHANGED child_no
               ELSE pc' = "scan" /\ child_no' = 1 /\ UNCHANGED free_size
    /\ UNCHANGED <<info, line_no, media_info_tree, current_child, total_size,
                   result, sections, swapped, prev_result>>

\* one pass of the for loop over media_info_tree.items()
ScanNextChild ==
    /\ pc = "scan"
    /\ child_no <= Len(media_info_tree)
    /\ LET s == ScanChild(free_size, media_info_tree[child_no]) IN
       IF s.err # NoError
       THEN Raise(s.err) /\ UNCHANGED <<free_size, child_no>>
       ELSE free_size' = s.v /\ child_no' = child_no + 1 /\ UNCHANGED <<pc, err>>
    /\ UNCHANGED <<info, line_no, media_info_tree, current_child, total_size,
                   is_blank, result, sections, swapped, prev_result>>

\* used_size = total_size - free_size; return MediaInfo(...)
Return ==
    /\ \/ pc = "return"
       \/ pc = "scan" /\ child_no > Len(media_info_tree)
    /\ LET f == Finish(total_size, free_size, is_blank) IN
       IF f.err # NoError
       THEN Raise(f.err) /\ UNCHANGED result
       ELSE pc' = "done" /\ result' = f.v /\ UNCHANGED err
    /\ UNCHANGED <<info, line_no, media_info_tree, current_child, total_size,
                   is_blank, free_size, child_no, sections, swapped, prev_result>>

Next == CallBuildTree \/ ResolveTotal \/ ResolveBlank \/ ScanNextChild \/ Return

Spec == Init /\ [][Next]_vars

(***************************************************************************)
(* What a report says, read off the tree.                                  *)
(***************************************************************************)
HasGroupField(tree, sec, fld) ==
    /\ HasKey(tree, sec)
    /\ Lookup(tree, sec).isdict
    /\ HasKey(Lookup(tree, sec).items, fld)
GroupField(tree, sec, fld) == Lookup(Lookup(tree, sec).items, fld).val
HasScalar(tree, sec) == HasKey(tree, sec) /\ ~Lookup(tree, sec).isdict

\* "<digits>*<anything>": the integer before the star
LeadingInt(value) == int(split(value, "*")[1])

CarriesFreeBlocks(e) == e.isdict /\ HasKey(e.items, FREE_BLOCKS)
FreeBlocksOf(e) == Lookup(e.items, FREE_BLOCKS).val
LastFreeBlocks(tree) ==
    CHOOSE i \in 1..Len(tree) :
        /\ CarriesFreeBlocks(tree[i])
        /\ \A j \in (i + 1)..Len(tree) : ~CarriesFreeBlocks(tree[j])

Ended == pc \in {"done", "raised"}
\* total_size has been assigned
TotalResolved ==
    \/ pc \in {"status", "scan", "return", "done"}
    \/ pc = "raised" /\ err.at \in {"status", "scan", "return"}
\* is_blank has been assigned
BlankResolved ==
    \/ pc \in {"scan", "return", "done"}
    \/ pc = "raised" /\ err.at \in {"scan", "return"}
\* the tree has been built and the total size has been looked for
TotalAttempted == TotalResolved \/ (pc = "raised" /\ err.at = "total")

StatusKnown == HasGroupField(media_info_tree, READ_DISC_INFORMATION, DISC_STATUS)
Status == GroupField(media_info_tree, READ_DISC_INFORMATION, DISC_STATUS)
FirstCandidate == HasGroupField(media_info_tree, READ_FORMAT_CAPACITIES, FORMATTED_00H)
SecondCandidate == HasScalar(media_info_tree, READ_CAPACITY)

(***************************************************************************)
(* C1: every record parse_media_info returns has free_size <= total_size,  *)
(* so used_size is never negative.  (Fails: a non-blank report whose last  *)
(* 'Free Blocks' exceeds 'READ CAPACITY'.)                                 *)
(***************************************************************************)
C1_FreeWithinTotal ==
    result.returned =>
        /\ result.free_size <= result.total_size
        /\ result.used_size >= 0

(***************************************************************************)
(* C2: for a non-blank report in which some Group has 'Free Blocks' (the   *)
(* total size resolving, the last such value being "<digits>*..."), the    *)
(* call returns free_size = 2048 * the integer of the LAST such Group;     *)
(* earlier Groups' values do not affect the result.  (Fails: an earlier    *)
(* Group whose 'Free Blocks' is not a number ends the call.)               *)
(***************************************************************************)
C2_LastFreeBlocksWins ==
    (/\ Ended
     /\ TotalResolved
     /\ StatusKnown
     /\ Status # BLANK
     /\ \E i \in 1..Len(media_info_tree) : CarriesFreeBlocks(media_info_tree[i])
     /\ LeadingInt(FreeBlocksOf(media_info_tree[LastFreeBlocks(media_info_tree)])).ok)
    => /\ result.returned
       /\ result.free_size =
            SECTOR_SIZE
              * LeadingInt(FreeBlocksOf(media_info_tree[LastFreeBlocks(media_info_tree)])).v

(***************************************************************************)
(* C3: total size by priority: Group 'READ FORMAT CAPACITIES' field        *)
(* '00h(3000)' when the tree has it, otherwise the Scalar 'READ CAPACITY'  *)
(* (values being "<digits>*...").  (Fails: 'READ FORMAT CAPACITIES'        *)
(* present as a Scalar raises TypeError instead of falling back.)          *)
(***************************************************************************)
C3_TotalPriority ==
    TotalAttempted =>
        /\ (FirstCandidate
              /\ LeadingInt(GroupField(media_info_tree, READ_FORMAT_CAPACITIES,
                                       FORMATTED_00H)).ok)
           => /\ TotalResolved
              /\ total_size =
                   SECTOR_SIZE
                     * LeadingInt(GroupField(media_info_tree, READ_FORMAT_CAPACITIES,
                                             FORMATTED_00H)).v
        /\ (~FirstCandidate /\ SecondCandidate
              /\ LeadingInt(Lookup(media_info_tree, READ_CAPACITY).str).ok)
           => /\ TotalResolved
              /\ total_size =
                   SECTOR_SIZE * LeadingInt(Lookup(media_info_tree, READ_CAPACITY).str).v

(***************************************************************************)
(* C4: 'Disc status' exactly 'blank' (total size resolving) gives a record *)
(* with is_blank, free_size = total_size and used_size = 0, whatever       *)
(* 'Free Blocks' the report holds; any other status gives is_blank false.  *)
(***************************************************************************)
C4_BlankIsAllFree ==
    /\ (BlankResolved /\ StatusKnown) => (is_blank <=> Status = BLANK)
    /\ (Ended /\ TotalResolved /\ StatusKnown /\ Status = BLANK)
       => /\ result.returned
          /\ result.is_blank
          /\ result.total_size = total_size
          /\ result.free_size = result.total_size
          /\ result.used_size = 0
    /\ (result.returned /\ StatusKnown /\ Status # BLANK) => ~result.is_blank

\* a blank report that returned, with a 'Free Blocks' of another size in it
C4_Witness ==
    /\ pc = "done"
    /\ result.is_blank
    /\ result.free_size = result.total_size
    /\ \E i \in 1..Len(media_info_tree) :
          /\ CarriesFreeBlocks(media_info_tree[i])
          /\ LeadingInt(FreeBlocksOf(media_info_tree[i])).ok
          /\ SECTOR_SIZE * LeadingInt(FreeBlocksOf(media_info_tree[i])).v
               # result.free_size

(***************************************************************************)
(* C7: a non-blank report in which no Group has 'Free Blocks' ends in an   *)
(* exception (the UnboundLocalError of the unassigned free_size, once the  *)
(* total size has resolved): no record is returned.                        *)
(***************************************************************************)
C7_NoFreeBlocksRaises ==
    (/\ Ended
     /\ StatusKnown
     /\ Status # BLANK
     /\ \A i \in 1..Len(media_info_tree) : ~CarriesFreeBlocks(media_info_tree[i]))
    => /\ pc = "raised"
       /\ ~result.returned
       /\ TotalResolved => (err.kind = "UnboundLocalError" /\ err.at = "scan")

\* the scan went over Groups and Scalars, found nothing, and the call raised
C7_Witness ==
    /\ pc = "raised"
    /\ err.kind = "UnboundLocalError"
    /\ StatusKnown
    /\ Status # BLANK
    /\ child_no > Len(media_info_tree)
    /\ Len(media_info_tree) >= 3
    /\ ~result.returned

(***************************************************************************)
(* C8: with neither total-size candidate in the tree, or with no           *)
(* 'Disc status' field (the section absent, a Group without the field, or  *)
(* a Scalar), the call ends in an exception and returns no record.         *)
(***************************************************************************)
C8_MissingFieldRaises ==
    (/\ Ended
     /\ \/ ~FirstCandidate /\ ~SecondCandidate
        \/ ~StatusKnown)
    => /\ pc = "raised"
       /\ err.kind # NoError
       /\ ~result.returned

\* the total size resolved, 'READ DISC INFORMATION' is a Scalar, the call raised
C8_Witness ==
    /\ pc = "raised"
    /\ TotalResolved
    /\ HasScalar(media_info_tree, READ_DISC_INFORMATION)
    /\ err = Traceback("TypeError", "status")
    /\ ~result.returned

(***************************************************************************)
(* SpecTree: one call of build_media_info_tree, a line at a time.          *)
(***************************************************************************)
Lines == split(info, NL)

InitTree ==
    /\ \E ls \in SeqsUpTo(TreeLines, MaxLines) : info = JoinLines(ls)
    /\ pc = "build"
    /\ line_no = 1
    /\ media_info_tree = <<>>
    /\ current_child = NoChild
    /\ total_size = 0
    /\ is_blank = FALSE
    /\ free_size = Unbound
    /\ child_no = 0
    /\ result = NoResult
    /\ err = NoTraceback
    /\ sections = <<>>
    /\ swapped = <<>>
    /\ prev_result = NoResult

Resolving == <<total_size, is_blank, free_size, child_no, result,
               sections, swapped, prev_result>>

AtLine == pc = "build" /\ line_no <= Len(Lines)

Advance(st) ==
    IF st.err # NoError
    THEN Raise(st.err) /\ UNCHANGED <<line_no, media_info_tree, current_child>>
    ELSE /\ line_no' = line_no + 1
         /\ media_info_tree' = st.tree
         /\ current_child' = st.current_child
         /\ UNCHANGED <<pc, err>>

\* blank, or led by a colon: pass
SkipLine ==
    /\ AtLine
    /\ IsSkipped(Lines[line_no])
    /\ Advance(LineStep(media_info_tree, current_child, Lines[line_no]))
    /\ UNCHANGED <<info, Resolving>>

\* led by a space: a field of current_child
IndentedLine ==
    /\ AtLine
    /\ IsIndented(Lines[line_no])
    /\ Advance(LineStep(media_info_tree, current_child, Lines[line_no]))
    /\ UNCHANGED <<info, Resolving>>

\* any other line: a scalar, or the header of a new dict
TopLevelLine ==
    /\ AtLine
    /\ ~IsSkipped(Lines[line_no])
    /\ ~IsIndented(Lines[line_no])
    /\ Advance(LineStep(media_info_tree, current_child, Lines[line_no]))
    /\ UNCHANGED <<info, Resolving>>

\* return media_info_tree
BuildReturn ==
    /\ pc = "build"
    /\ line_no > Len(Lines)
    /\ pc' = "built"
    /\ UNCHANGED <<info, line_no, media_info_tree, current_child, err, Resolving>>

NextTree == SkipLine \/ IndentedLine \/ TopLevelLine \/ BuildReturn

SpecTree == InitTree /\ [][NextTree]_vars

(***************************************************************************)
(* What a line says: its key is the text before the first colon, its       *)
(* value everything after it, both trimmed.                                *)
(***************************************************************************)
ColonCount(line) == Len(split(line, ":")) - 1
BeforeColon(line) == split(line, ":")[1]
AfterFirstColon(line) == SubSeq(line, Len(BeforeColon(line)) + 2, Len(line))
KeyOf(line) == strip(BeforeColon(line))
ValueOf(line) == strip(AfterFirstColon(line))

NotNoise(line) == strip(line) # <<>> /\ line[1] # ":"
\* an indented line: one beginning with whitespace
LedByWhitespace(line) == NotNoise(line) /\ IsSpace(line[1])
TopLevel(line) == NotNoise(line) /\ ~IsSpace(line[1]) /\ ColonCount(line) >= 1

\* The Group the lines before line n+1 leave open: that of the most recent
\* top-level line, if its value is empty.
RECURSIVE OpenGroupAfter(_, _)
OpenGroupAfter(lines, n) ==
    IF n = 0 THEN NoChild
    ELSE IF TopLevel(lines[n])
         THEN IF ValueOf(lines[n]) = <<>> THEN ChildOf(KeyOf(lines[n])) ELSE NoChild
         ELSE OpenGroupAfter(lines, n - 1)

(***************************************************************************)
(* C5: build_media_info_tree never fails on a malformed line: a non-blank  *)
(* line without a colon is skipped and the parse goes on.  (Fails: the     *)
(* two-name unpacking of line.split(':') raises ValueError.)               *)
(***************************************************************************)
C5_NoColonLineSkipped ==
    /\ pc = "raised" => ColonCount(Lines[line_no]) # 0
    /\ (pc \in {"build", "built"} /\ line_no > 1
          /\ NotNoise(Lines[line_no - 1]) /\ ColonCount(Lines[line_no - 1]) = 0)
       => media_info_tree =
            BuildFrom(BuildState(<<>>, NoChild, NoError),
                      SubSeq(Lines, 1, line_no - 2), 1).tree

(***************************************************************************)
(* C6: only the first colon of a line counts: a top-level or indented line *)
(* with two or more colons stores, under the trimmed text before the first *)
(* colon, the whole trimmed text after it, and does not fail.  (Fails:     *)
(* line.split(':') yields three parts and the unpacking raises.)           *)
(***************************************************************************)
C6_FirstColonOnly ==
    /\ pc = "raised" => ~(NotNoise(Lines[line_no]) /\ ColonCount(Lines[line_no]) >= 2
                            /\ err.kind = "ValueError")
    /\ (pc \in {"build", "built"} /\ line_no > 1
          /\ NotNoise(Lines[line_no - 1]) /\ ColonCount(Lines[line_no - 1]) >= 2)
       => LET line == Lines[line_no - 1] IN
          IF IsIndented(line)
          THEN /\ current_child.open
               /\ HasKey(Lookup(media_info_tree, current_child.key).items, KeyOf(line))
               /\ Lookup(Lookup(media_info_tree, current_child.key).items,
                         KeyOf(line)).val = ValueOf(line)
          ELSE /\ HasKey(media_info_tree, KeyOf(line))
               /\ Lookup(media_info_tree, KeyOf(line)) = Scalar(KeyOf(line), ValueOf(line))

(***************************************************************************)
(* C10: each indented line (one beginning with whitespace) goes, as        *)
(* trimmed sub-key -> trimmed sub-value, into the Group opened by the most *)
(* recent top-level line with an empty value, and into no other section; a *)
(* top-level line with a value is stored as a Scalar and closes the Group, *)
(* after which no indented line is added to it.  (Fails: an indented line  *)
(* with two colons raises, cf. C6; a line indented by a tab is stored as a *)
(* top-level Scalar and closes the Group.)                                 *)
(***************************************************************************)
C10_Step ==
    LET line == Lines[line_no]
        group == OpenGroupAfter(Lines, line_no - 1)
    IN  /\ (AtLine /\ LedByWhitespace(line))
           => IF group.open /\ HasKey(media_info_tree, group.key)
              THEN /\ pc' # "raised"
                   /\ media_info_tree' =
                        [media_info_tree EXCEPT
                           ![IndexOf(media_info_tree, group.key)].items =
                               DictSet(@, Field(KeyOf(line), ValueOf(line)))]
              ELSE media_info_tree' = media_info_tree
        /\ (AtLine /\ TopLevel(line) /\ ValueOf(line) # <<>> /\ pc' # "raised")
           => /\ media_info_tree' =
                   DictSet(media_info_tree, Scalar(KeyOf(line), ValueOf(line)))
              /\ current_child' = NoChild

C10_IndentedLinesJoinOpenGroup == [][C10_Step]_vars

(***************************************************************************)
(* SpecSwap: parse_media_info on a report, and again on the report with    *)
(* two of its sections exchanged.                                          *)
(***************************************************************************)
InitSwap ==
    /\ sections \in Reports(SwapSections, MaxSwapSections)
    /\ info = Concat(sections)
    /\ pc = "done"
    /\ result = parse_media_info(info).v
    /\ err = Traceback(parse_media_info(info).err, "")
    /\ swapped = <<>>
    /\ prev_result = NoResult
    /\ line_no = 0
    /\ media_info_tree = <<>>
    /\ current_child = NoChild
    /\ total_size = 0
    /\ is_blank = FALSE
    /\ free_size = Unbound
    /\ child_no = 0

SwapAt(ss, i, j) == [ss EXCEPT ![i] = ss[j], ![j] = ss[i]]

\* The same call on the report with sections i and j exchanged.
Swap ==
    /\ swapped = <<>>
    /\ \E i, j \in 1..Len(sections) :
          /\ i < j
          /\ LET exchanged == SwapAt(sections, i, j)
                 text == Concat(exchanged)
                 parsed == parse_media_info(text)
             IN  /\ sections' = exchanged
                 /\ swapped' = <<i, j>>
                 /\ info' = text
                 /\ result' = parsed.v
                 /\ err' = Traceback(parsed.err, "")
    /\ prev_result' = result
    /\ UNCHANGED <<pc, line_no, media_info_tree, current_child, total_size,
                   is_blank, free_size, child_no>>

NextSwap == Swap

SpecSwap == InitSwap /\ [][NextSwap]_vars

(***************************************************************************)
(* What a section is: the one entry it puts in the tree.                   *)
(***************************************************************************)
EntryOf(section) == build_media_info_tree(section).tree[1]
IsTrackGroup(section) ==
    EntryOf(section).isdict /\ EntryOf(section).key \in TrackNames
HasFreeBlocks(section) == CarriesFreeBlocks(EntryOf(section))
NamesDistinct(ss) ==
    \A i, j \in 1..Len(ss) : EntryOf(ss[i]).key = EntryOf(ss[j]).key => i = j

SwappedAre(P(_)) == P(sections[swapped[1]]) /\ P(sections[swapped[2]])
NotTrackGroup(section) == ~IsTrackGroup(section)
Unrelated(section) == ~IsTrackGroup(section) /\ ~HasFreeBlocks(section)

(***************************************************************************)
(* C9 as stated: in a report (section names distinct) on which the call    *)
(* returns a record, exchanging two sections that are not                  *)
(* 'READ TRACK INFORMATION[#n]' groups leaves free_size as it was.         *)
(* (Fails: every Group is scanned for 'Free Blocks', so a Group of another *)
(* name that carries the field takes part in "last wins".)                 *)
(***************************************************************************)
C9_SwapNonTrackSections ==
    (/\ swapped # <<>>
     /\ prev_result.returned
     /\ NamesDistinct(sections)
     /\ SwappedAre(NotTrackGroup))
    => /\ result.returned
       /\ result.free_size = prev_result.free_size

(***************************************************************************)
(* C9 amended: in a report whose section names are distinct and on which   *)
(* the call returns a record, exchanging two sections that are neither     *)
(* 'READ TRACK INFORMATION[#n]' groups nor Groups with a 'Free Blocks'     *)
(* field leaves free_size (and the whole record) as it was.                *)
(***************************************************************************)
C9_SwapUnrelatedSections ==
    (/\ swapped # <<>>
     /\ prev_result.returned
     /\ NamesDistinct(sections)
     /\ SwappedAre(Unrelated))
    => /\ result.returned
       /\ result.free_size = prev_result.free_size
       /\ result = prev_result

\* two unrelated sections exchanged around a track group whose 'Free Blocks'
\* gives the free size of a non-blank report
C9_Witness ==
    /\ swapped # <<>>
    /\ prev_result.returned
    /\ ~prev_result.is_blank
    /\ NamesDistinct(sections)
    /\ SwappedAre(Unrelated)
    /\ swapped[2] - swapped[1] >= 2
    /\ \E k \in (swapped[1] + 1)..(swapped[2] - 1) : HasFreeBlocks(sections[k])
    /\ result.returned
    /\ result.free_size = prev_result.free_size

====
